---- MODULE Spec2Model ----
(***************************************************************************)
(* Model of the martingale strategy engine of algo_trading:                *)
(*   app/services/martingale_service.py  (MartingaleService, the run loop) *)
(*   app/services/mt5_interface.py       (CrossPlatformMT5Interface)       *)
(*   app/routers/strategies.py           (start / stop / delete endpoints) *)
(*                                                                         *)
(* Units.  Volumes are counted in lot steps, prices in points, money in    *)
(* the unit of  points * lot steps * 10  (the code's "* 10" point value).  *)
(* The ratio abs(pnl) / initial_lot_size of the code is a quotient of two  *)
(* such numbers and is compared with recovery_step without division.       *)
(*                                                                         *)
(* Scheduling.  Everything runs on one asyncio event loop.  A coroutine    *)
(* gives the loop away only where it really suspends: the awaits of        *)
(* asyncio.sleep.  No gateway method suspends (they call the blocking mt5  *)
(* library), so a controller runs from one sleep to the next without any   *)
(* request handler or other controller in between.  holder names the       *)
(* controller that has not yet reached its next sleep (0: nobody).         *)
(*                                                                         *)
(* Persistence.  Every query reads the committed rows; the records of the  *)
(* model are the rows of the tables strategies, trading_sessions, trades.  *)
(* Column types are not modelled: the string "stopped" that the finally    *)
(* block of run_strategy assigns to the Enum column strategies.status is   *)
(* stored and read back as the status stopped.                             *)
(***************************************************************************)
EXTENDS Integers, Sequences, FiniteSets, TLC

\* ------------------------------------------------------------------ bounds
\* The code limits neither the trade rows nor the sessions.  A behaviour is
\* explored up to scope.trades trade rows and scope.sessions started sessions:
\* Spec follows one session in full detail (every parameter set, up to
\* MaxTrades rows); Lifecycle follows restarts (up to MaxSessions sessions
\* and MaxLifecycleTrades rows, one parameter set); Restarts is Lifecycle
\* with up to MaxRestarts sessions; Trading adds the manual endpoints of
\* routers/trading.py to one session (up to MaxDeskTrades rows); Faults is
\* Spec with the zero lot size, Unvalidated with max_trades 0; FairLifecycle
\* is Lifecycle under the event loop's scheduling; Reconfig is Lifecycle with
\* update_strategy; StopRequests is Lifecycle with the calls of
\* MartingaleService.stop_strategy() remembered.
MaxTrades == 3
MaxSessions == 2
MaxLifecycleTrades == 1
MaxRestarts == 3
MaxDeskTrades == 2

\* ------------------------------------------------------- program constants
\* _mock_prices: bid and ask of the mock quote, in points above a base.
MockBid == 1
MockAsk == 2
\* "Assuming 10 currency units per point"
PointValue == 10

\* The ask prices of the live market, in points.
Prices == {1, 2, 3}

\* Strategy parameter sets accepted by create_strategy (it validates nothing).
\* ConfNormal: thresholds in their usual order (take_profit < max_drawdown < stop_loss).
\* ConfLowCap: max_lot_size below initial_lot_size.
\* ConfTightStop: stop_loss below take_profit.
ConfNormal ==
  [initial_lot_size |-> 1, max_lot_size |-> 2, recovery_step |-> 10,
   take_profit |-> 20, stop_loss |-> 40, max_trades |-> 3, max_drawdown |-> 30]
ConfLowCap ==
  [initial_lot_size |-> 2, max_lot_size |-> 1, recovery_step |-> 10,
   take_profit |-> 100, stop_loss |-> 100, max_trades |-> 2, max_drawdown |-> 100]
ConfTightStop ==
  [initial_lot_size |-> 1, max_lot_size |-> 4, recovery_step |-> 20,
   take_profit |-> 20, stop_loss |-> 10, max_trades |-> 3, max_drawdown |-> 1000]
Configs == {ConfNormal, ConfLowCap, ConfTightStop}
\* ConfZeroLot: initial_lot_size 0, which makes the loss ratio of
\* _check_and_place_recovery_trades a division by zero.
ConfZeroLot ==
  [initial_lot_size |-> 0, max_lot_size |-> 2, recovery_step |-> 10,
   take_profit |-> 20, stop_loss |-> 40, max_trades |-> 3, max_drawdown |-> 30]

\* ConfNoTrades: max_trades 0.
ConfNoTrades ==
  [initial_lot_size |-> 1, max_lot_size |-> 2, recovery_step |-> 10,
   take_profit |-> 20, stop_loss |-> 40, max_trades |-> 0, max_drawdown |-> 30]

\* The end-to-end scenario {initialLot=0.01, maxLot=0.08, recoveryStep=50,
\* takeProfit=100, stopLoss=500, maxTrades=5}, max_drawdown at its default
\* 1000, with a lot step of 0.01 lot and a point of 50 price units: one model
\* money unit is 0.5 currency units, so recovery_step 50 is 1, take_profit 100
\* is 200, stop_loss 500 is 1000 and max_drawdown 1000 is 2000.
ConfEndToEnd ==
  [initial_lot_size |-> 1, max_lot_size |-> 8, recovery_step |-> 1,
   take_profit |-> 200, stop_loss |-> 1000, max_trades |-> 5, max_drawdown |-> 2000]

\* The ask prices of the scenario's path: the initial buy fills at 13; at 1
\* its P&L is (1 - 13) * 1 * 10 = -120, that is -60 currency units; with a
\* sell of 2 lot steps opened there at bid 0 the P&L at 91 is
\* (91 - 13) * 1 * 10 + (0 - 91) * 2 * 10 = -1040, that is -520.
EndToEndPrices == {1, 13, 91}

VARIABLES
  strategy,   \* the one row of table strategies: [exists, status, conf]
  sessions,   \* table trading_sessions, a sequence indexed by session id
  trades,     \* table trades, a sequence indexed by trade id; the field held of a
              \* row is not a column: it tells whether the terminal still holds
              \* the position that the row's ticket names
  ctl,        \* the MartingaleService objects in the order of their creation:
              \* [session_id, pc, is_running, initial_trade_placed, started_with,
              \* stop_requested]; the actions of run_strategy name a controller
              \* by the session it works on; started_with and stop_requested are
              \* no fields of the object: the first keeps the parameters the
              \* strategy row held when the task was created, the second tells
              \* whether stop_strategy() was called on the object while its
              \* task was scheduled or running (kept where scope.stops holds)
  gw,         \* the global mt5_interface: [is_mt5_available, is_connected, mock_mode]
  holder,     \* the controller that runs without having reached a sleep, or 0
  scope,      \* the extent of the exploration: [sessions, trades, prices, stops];
              \* never changes; stops tells whether stop_requested is kept
  last        \* what the most recent controller step did (history, for the properties)

vars == <<strategy, sessions, trades, ctl, gw, holder, scope, last>>

\* ------------------------------------------------------------------ helpers
Abs(x) == IF x < 0 THEN -x ELSE x

RECURSIVE Pow2(_)
Pow2(n) == IF n = 0 THEN 1 ELSE 2 * Pow2(n - 1)

RECURSIVE SumOver(_, _)
\* sum of f[i] over the finite set S
SumOver(f, S) ==
  IF S = {} THEN 0
  ELSE LET i == CHOOSE j \in S : TRUE IN f[i] + SumOver(f, S \ {i})

SessionIds == DOMAIN sessions
TradeIds == DOMAIN trades

\* The record of a controller step: the session, what the step was, and for
\* an evaluation the reference price, the number of open trades and their
\* unrealized P&L when the step began, the order sent, the exit reason, the
\* trades open when the close pass began, those whose close was requested and
\* those whose close succeeded, and the rows the step appended to table
\* system_logs (the program only appends to the table and lists it).  For a
\* step that called connect, connected tells whether initialize and login
\* reached the terminal ({TRUE}) or not ({FALSE}).
NoStep ==
  [sid |-> 0, kind |-> "none", price |-> {}, nOpen |-> 0, pnl |-> 0, order |-> {},
   exit |-> "none", openAtExit |-> {}, closeReq |-> {}, closeOk |-> {}, logs |-> <<>>,
   connected |-> {}]

\* _log_system_event(level, "STRATEGY", message, session_id, db): the SystemLog
\* row; event stands for the message.
SystemLog(level, event, sid) == [level |-> level, event |-> event, sid |-> sid]

\* Mutant: the except clause of the loop logs nothing.
except_handler_silent(s) == <<>>

\* The except clause of the loop in run_strategy: the error logged for the
\* session.  The loop goes on after a sleep.
except_handler(s) == <<SystemLog("ERROR", "Strategy error", s)>>

StepRec(s, k) == [NoStep EXCEPT !.sid = s, !.kind = k]


\* ------------------------------------------------------------------ gateway
\* mt5_interface.py: CrossPlatformMT5Interface

\* connect(): without the mt5 package, or when initialize or login fails or
\* raises, the interface falls back to mock mode; a live connection sets
\* is_connected only.  live tells whether initialize and login went through.
connect(g, live) ==
  IF ~g.is_mt5_available \/ ~live
  THEN [g EXCEPT !.mock_mode = TRUE, !.is_connected = TRUE]
  ELSE [g EXCEPT !.is_connected = TRUE]

\* disconnect(): both branches end with is_connected = False; mock_mode stays.
disconnect(g) == [g EXCEPT !.is_connected = FALSE]

\* The live bid lies below the ask by the spread of the mock quote.
Bid(a) == a - (MockAsk - MockBid)

\* The answers of the live terminal to symbol_info_tick: no tick ({}), or a
\* tick with one of the ask prices.  The market is outside the program: every
\* iteration that asks sees some quote q of Quotes.
Quotes == {{}} \cup {{p} : p \in scope.prices}

\* get_price(symbol).ask as a set: {} is None.  q is the live terminal's answer.
get_price(q) ==
  IF ~gw.is_connected THEN {}
  ELSE IF gw.mock_mode THEN {MockAsk}
  ELSE q

\* send_market_order(): TradeResult as [success, price, ticket].  A mock order
\* always fills at the mock quote; a live order fills at ask (buy) or bid
\* (sell) when the terminal accepts it (accepted).
send_market_order(type, accepted, q) ==
  IF ~gw.is_connected THEN [success |-> FALSE, price |-> {}, ticket |-> "none"]
  ELSE IF gw.mock_mode
    THEN [success |-> TRUE,
          price |-> {IF type = "buy" THEN MockAsk ELSE MockBid},
          ticket |-> "mock"]
  ELSE IF accepted /\ q # {}
    THEN [success |-> TRUE,
          price |-> {IF type = "buy" THEN a ELSE Bid(a) : a \in q},
          ticket |-> "live"]
  ELSE [success |-> FALSE, price |-> {}, ticket |-> "none"]

\* close_position(ticket, symbol) for trade row t.  Mock mode answers success
\* with no price.  Live: int(ticket) raises for a "MOCK_..." ticket, which the
\* method's except turns into a failure; a position the terminal no longer
\* holds is "not found"; otherwise the position is closed at bid (a buy) or
\* ask (a sell) when the terminal accepts it.
close_position(t, accepted, q) ==
  IF ~gw.is_connected THEN [success |-> FALSE, price |-> {}]
  ELSE IF gw.mock_mode THEN [success |-> TRUE, price |-> {}]
  ELSE IF t.ticket = "live" /\ t.held /\ accepted /\ q # {}
    THEN [success |-> TRUE,
          price |-> {IF t.trade_type = "buy" THEN Bid(a) ELSE a : a \in q}]
  ELSE [success |-> FALSE, price |-> {}]

\* ------------------------------------------------------------ risk functions
\* martingale_service.py

\* Mutant: the query for the open trades returns the cancelled ones as well.
OpenOrCancelledTrades(tr, s) ==
  {i \in DOMAIN tr : tr[i].sid = s /\ tr[i].status \in {"open", "cancelled"}}

\* The trades of session s with status OPEN.
OpenTrades(tr, s) ==
  {i \in DOMAIN tr : tr[i].sid = s /\ tr[i].status = "open"}

\* _calculate_unrealized_pnl(trades, current_price)
calculate_unrealized_pnl(tr, T, p) ==
  LET one == [i \in DOMAIN tr |->
                (IF tr[i].trade_type = "buy"
                   THEN (p - tr[i].open_price) * tr[i].volume
                   ELSE (tr[i].open_price - p) * tr[i].volume) * PointValue]
  IN SumOver(one, T)

\* The P&L of one trade at price p, as the loop body computes it.
TradePnl(t, p) ==
  (IF t.trade_type = "buy" THEN (p - t.open_price) * t.volume
   ELSE (t.open_price - p) * t.volume) * PointValue

RECURSIVE PnlAfter(_, _, _, _)
\* total_pnl after the first k trades of the list.
PnlAfter(tr, list, p, k) ==
  IF k = 0 THEN 0 ELSE PnlAfter(tr, list, p, k - 1) + TradePnl(tr[list[k]], p)

\* Mutant: the loop assigns the trade's P&L instead of adding it.
calculate_unrealized_pnl_assign(tr, list, p) ==
  IF Len(list) = 0 THEN 0 ELSE TradePnl(tr[list[Len(list)]], p)

\* _calculate_unrealized_pnl(trades, current_price) on the list of trades it
\* is given (list: the trade ids in the order of the list), trade after trade.
calculate_unrealized_pnl_list(tr, list, p) == PnlAfter(tr, list, p, Len(list))

\* Mutant: the limit test lets one more trade through.
AtMaxTradesStrict(conf, n) == n > conf.max_trades

\* len(open_trades) >= strategy.max_trades
AtMaxTrades(conf, n) == n >= conf.max_trades

\* Mutant: the recovery step must be exceeded, not only reached.
LossReachedStrict(conf, pnl) ==
  Abs(pnl) > conf.recovery_step * conf.initial_lot_size

\* abs(total_unrealized_pnl) / strategy.initial_lot_size >= strategy.recovery_step
\* (initial_lot_size # 0; the division raises ZeroDivisionError otherwise)
LossReached(conf, pnl) ==
  IF conf.initial_lot_size > 0
  THEN Abs(pnl) >= conf.recovery_step * conf.initial_lot_size
  ELSE Abs(pnl) <= conf.recovery_step * conf.initial_lot_size

\* recovery_lot = initial_lot_size * 2 ** recovery_level, capped at max_lot_size
RecoveryLot(conf, level) ==
  LET lot == conf.initial_lot_size * Pow2(level)
  IN IF lot > conf.max_lot_size THEN conf.max_lot_size ELSE lot

\* Mutant: a tie resolves to sell.
RecoveryDirectionTieSell(buys, sells) == IF buys >= sells THEN "sell" ELSE "buy"

\* sell when more buys than sells are open, buy otherwise
RecoveryDirection(buys, sells) == IF buys > sells THEN "sell" ELSE "buy"

\* The decision part of _check_and_place_recovery_trades: [err, order] where
\* order is {} or one order [dir, vol, level] and err is the ZeroDivisionError.
RecoveryDecision(conf, tr, open, p) ==
  LET n == Cardinality(open)
      pnl == calculate_unrealized_pnl(tr, open, p)
      buys == Cardinality({i \in open : tr[i].trade_type = "buy"})
      sells == Cardinality({i \in open : tr[i].trade_type = "sell"})
  IN IF AtMaxTrades(conf, n) THEN [err |-> FALSE, order |-> {}]
     ELSE IF conf.initial_lot_size = 0 THEN [err |-> TRUE, order |-> {}]
     ELSE IF LossReached(conf, pnl) /\ pnl < 0
       THEN [err |-> FALSE,
             order |-> {[dir |-> RecoveryDirection(buys, sells),
                         vol |-> RecoveryLot(conf, n),
                         level |-> n]}]
     ELSE [err |-> FALSE, order |-> {}]

\* Mutant: the stop-loss test comes before the take-profit test.
ExitReasonStopFirst(conf, pnl) ==
  IF Abs(pnl) >= conf.stop_loss THEN "Stop Loss Hit"
  ELSE IF pnl >= conf.take_profit THEN "Take Profit Hit"
  ELSE IF Abs(pnl) >= conf.max_drawdown THEN "Max Drawdown Reached"
  ELSE "none"

\* The tests of _check_exit_conditions, in the code's order; "none" when no
\* test is met.
ExitReason(conf, pnl) ==
  IF pnl >= conf.take_profit THEN "Take Profit Hit"
  ELSE IF Abs(pnl) >= conf.stop_loss THEN "Stop Loss Hit"
  ELSE IF Abs(pnl) >= conf.max_drawdown THEN "Max Drawdown Reached"
  ELSE "none"


\* ------------------------------------------------------- controller helpers

\* Mutant: a rejected order leaves the row open.
PlacedTradeOpenOnReject(s, type, vol, level, r) ==
  [sid |-> s, trade_type |-> type, volume |-> vol, recovery_level |-> level,
   open_price |-> IF r.success /\ r.price # {}
                    THEN (CHOOSE x \in r.price : TRUE) ELSE 0,
   close_price |-> {}, profit_loss |-> 0,
   ticket |-> IF r.success THEN r.ticket ELSE "none",
   held |-> r.success /\ r.ticket = "live",
   status |-> "open"]

\* The Trade row as _place_initial_trade / _place_recovery_trade create and
\* commit it before the order is sent.
PendingTrade(s, type, vol, level) ==
  [sid |-> s, trade_type |-> type, volume |-> vol, recovery_level |-> level,
   open_price |-> 0, close_price |-> {}, profit_loss |-> 0,
   ticket |-> "none", held |-> FALSE, status |-> "pending"]

\* Mutant: only a successful order updates the row.
TradeAfterResultSuccessOnly(t, r) ==
  IF r.success
  THEN [t EXCEPT !.ticket = r.ticket,
                 !.open_price = IF r.price # {} THEN (CHOOSE x \in r.price : TRUE) ELSE 0,
                 !.status = "open",
                 !.held = (r.ticket = "live")]
  ELSE t

\* "if result.success: ... else: ...", then the commit: the row after the
\* gateway's TradeResult r (open_price is "result.price or 0.0").
TradeAfterResult(t, r) ==
  IF r.success
  THEN [t EXCEPT !.ticket = r.ticket,
                 !.open_price = IF r.price # {} THEN (CHOOSE x \in r.price : TRUE) ELSE 0,
                 !.status = "open",
                 !.held = (r.ticket = "live")]
  ELSE [t EXCEPT !.status = "cancelled"]

\* The Trade row of _place_initial_trade / _place_recovery_trade: created
\* pending, then updated from the gateway's TradeResult r.
PlacedTrade(s, type, vol, level, r) ==
  TradeAfterResult(PendingTrade(s, type, vol, level), r)

\* Realized P&L as _close_all_session_trades computes it for exit price x.
RealizedPnl(t, x) ==
  IF t.trade_type = "buy"
  THEN (x - t.open_price) * t.volume * PointValue
  ELSE (t.open_price - x) * t.volume * PointValue

\* One trade of the close pass whose close_position answered r with a price.
ClosedTrade(t, r) ==
  LET x == CHOOSE y \in r.price : TRUE
  IN [t EXCEPT !.status = "closed", !.close_price = {x},
               !.profit_loss = RealizedPnl(t, x), !.held = FALSE]

\* _close_all_session_trades(session_id, reason): [trades, req, ok, err].
\* Every open trade of the session has a ticket, so close_position is called
\* for each.  accepted: the trades whose close the live terminal accepts.
\* In mock mode close_position answers success without a price: the row is
\* set closed with close_price None, then "result.price - trade.open_price"
\* raises TypeError and the pass is left (err); first is the trade the query
\* returned first.  The row change is committed by the error log's commit.
close_all_session_trades(tr, s, accepted, first, q) ==
  LET open == OpenTrades(tr, s)
      res == [i \in open |-> close_position(tr[i], i \in accepted, q)]
      done == {i \in open : res[i].success}
  IN IF open # {} /\ gw.is_connected /\ gw.mock_mode
     THEN [trades |-> [tr EXCEPT ![first].status = "closed"],
           req |-> {first}, ok |-> {first}, err |-> TRUE]
     ELSE [trades |-> [i \in DOMAIN tr |->
                         IF i \in done THEN ClosedTrade(tr[i], res[i]) ELSE tr[i]],
           req |-> open, ok |-> done, err |-> FALSE]

\* Mutant: the counters are taken over all trades of the session.
update_session_stats_all(ss, tr, s) ==
  LET all == {i \in DOMAIN tr : tr[i].sid = s}
      pl == [i \in DOMAIN tr |-> tr[i].profit_loss]
  IN [ss EXCEPT ![s].total_trades = Cardinality(all),
                ![s].winning_trades = Cardinality({i \in all : pl[i] > 0}),
                ![s].losing_trades = Cardinality({i \in all : pl[i] < 0}),
                ![s].total_profit_loss = SumOver(pl, all)]

\* _update_session_stats(session_id): counters recomputed from the closed trades.
update_session_stats(ss, tr, s) ==
  LET closed == {i \in DOMAIN tr : tr[i].sid = s /\ tr[i].status = "closed"}
      pl == [i \in DOMAIN tr |-> tr[i].profit_loss]
  IN [ss EXCEPT ![s].total_trades = Cardinality(closed),
                ![s].winning_trades = Cardinality({i \in closed : pl[i] > 0}),
                ![s].losing_trades = Cardinality({i \in closed : pl[i] < 0}),
                ![s].total_profit_loss = SumOver(pl, closed)]

\* The finally block of run_strategy.
FinallyStrategy(st) ==
  IF st.exists THEN [st EXCEPT !.status = "stopped"] ELSE st

\* Mutant: the finally block does not touch the session.
FinallySessionsKeep(ss, s) == ss

\* Mutant: the finally block starts the session's counters afresh.
FinallySessionsResetStats(ss, s) ==
  IF ss[s].status = "active"
  THEN [ss EXCEPT ![s].status = "completed", ![s].ended = TRUE,
                  ![s].total_trades = 0, ![s].total_profit_loss = 0]
  ELSE ss

FinallySessions(ss, s) ==
  IF ss[s].status = "active"
  THEN [ss EXCEPT ![s].status = "completed", ![s].ended = TRUE]
  ELSE ss

Finally(s) ==
  /\ strategy' = FinallyStrategy(strategy)
  /\ sessions' = FinallySessions(sessions, s)
  /\ ctl' = [ctl EXCEPT ![s].pc = "done", ![s].is_running = FALSE,
                         ![s].stop_requested = FALSE]
  /\ holder' = 0

\* ------------------------------------------------------------------- Init
Init ==
  /\ strategy \in {[exists |-> TRUE, status |-> "inactive", conf |-> c] : c \in Configs}
  /\ sessions = <<>>
  /\ trades = <<>>
  /\ ctl = <<>>
  /\ gw \in {[is_mt5_available |-> a, is_connected |-> FALSE, mock_mode |-> FALSE] :
               a \in BOOLEAN}
  /\ holder = 0
  /\ scope = [sessions |-> 1, trades |-> MaxTrades, prices |-> Prices,
              stops |-> FALSE]
  /\ last = NoStep

\* One parameter set, restarts allowed.
InitLifecycle ==
  /\ strategy = [exists |-> TRUE, status |-> "inactive", conf |-> ConfNormal]
  /\ sessions = <<>>
  /\ trades = <<>>
  /\ ctl = <<>>
  /\ gw \in {[is_mt5_available |-> a, is_connected |-> FALSE, mock_mode |-> FALSE] :
               a \in BOOLEAN}
  /\ holder = 0
  /\ scope = [sessions |-> MaxSessions, trades |-> MaxLifecycleTrades, prices |-> Prices,
              stops |-> FALSE]
  /\ last = NoStep

\* Lifecycle with the calls of MartingaleService.stop_strategy() remembered.
InitStopRequests ==
  /\ strategy = [exists |-> TRUE, status |-> "inactive", conf |-> ConfNormal]
  /\ sessions = <<>>
  /\ trades = <<>>
  /\ ctl = <<>>
  /\ gw \in {[is_mt5_available |-> a, is_connected |-> FALSE, mock_mode |-> FALSE] :
               a \in BOOLEAN}
  /\ holder = 0
  /\ scope = [sessions |-> MaxSessions, trades |-> MaxLifecycleTrades, prices |-> Prices,
              stops |-> TRUE]
  /\ last = NoStep

\* One parameter set, more restarts.
InitRestarts ==
  /\ strategy = [exists |-> TRUE, status |-> "inactive", conf |-> ConfNormal]
  /\ sessions = <<>>
  /\ trades = <<>>
  /\ ctl = <<>>
  /\ gw \in {[is_mt5_available |-> a, is_connected |-> FALSE, mock_mode |-> FALSE] :
               a \in BOOLEAN}
  /\ holder = 0
  /\ scope = [sessions |-> MaxRestarts, trades |-> MaxLifecycleTrades, prices |-> Prices,
              stops |-> FALSE]
  /\ last = NoStep

\* One session with the manual trading endpoints.
InitTrading ==
  /\ strategy = [exists |-> TRUE, status |-> "inactive", conf |-> ConfNormal]
  /\ sessions = <<>>
  /\ trades = <<>>
  /\ ctl = <<>>
  /\ gw \in {[is_mt5_available |-> a, is_connected |-> FALSE, mock_mode |-> FALSE] :
               a \in BOOLEAN}
  /\ holder = 0
  /\ scope = [sessions |-> 1, trades |-> MaxDeskTrades, prices |-> Prices,
              stops |-> FALSE]
  /\ last = NoStep

\* One session whose iterations may raise: the zero lot size or the usual set.
InitFaults ==
  /\ strategy \in {[exists |-> TRUE, status |-> "inactive", conf |-> c] :
                     c \in {ConfNormal, ConfZeroLot}}
  /\ sessions = <<>>
  /\ trades = <<>>
  /\ ctl = <<>>
  /\ gw \in {[is_mt5_available |-> a, is_connected |-> FALSE, mock_mode |-> FALSE] :
               a \in BOOLEAN}
  /\ holder = 0
  /\ scope = [sessions |-> 1, trades |-> MaxTrades, prices |-> Prices,
              stops |-> FALSE]
  /\ last = NoStep

\* One session of a strategy whose max_trades may be 0.
InitUnvalidated ==
  /\ strategy \in {[exists |-> TRUE, status |-> "inactive", conf |-> c] :
                     c \in {ConfNormal, ConfNoTrades}}
  /\ sessions = <<>>
  /\ trades = <<>>
  /\ ctl = <<>>
  /\ gw \in {[is_mt5_available |-> a, is_connected |-> FALSE, mock_mode |-> FALSE] :
               a \in BOOLEAN}
  /\ holder = 0
  /\ scope = [sessions |-> 1, trades |-> MaxTrades, prices |-> Prices,
              stops |-> FALSE]
  /\ last = NoStep

\* The end-to-end scenario: its parameter set and the prices of its path.
InitEndToEnd ==
  /\ strategy = [exists |-> TRUE, status |-> "inactive", conf |-> ConfEndToEnd]
  /\ sessions = <<>>
  /\ trades = <<>>
  /\ ctl = <<>>
  /\ gw \in {[is_mt5_available |-> a, is_connected |-> FALSE, mock_mode |-> FALSE] :
               a \in BOOLEAN}
  /\ holder = 0
  /\ scope = [sessions |-> 1, trades |-> MaxTrades, prices |-> EndToEndPrices,
              stops |-> FALSE]
  /\ last = NoStep

\* ------------------------------------------------------- request handlers
\* Mutant: the task is handed the id of the latest session that existed.
StaleSessionId(ss) == IF Len(ss) = 0 THEN 1 ELSE Len(ss)

\* session.id after db.refresh(session): the next id of the table.
NewSessionId(ss) == Len(ss) + 1

\* strategies.py start_strategy: a new active session, the strategy active,
\* a new MartingaleService whose run_strategy is scheduled as background task.
start_strategy ==
  /\ holder = 0
  /\ strategy.exists
  /\ strategy.status # "active"
  /\ Len(sessions) < scope.sessions
  /\ sessions' = Append(sessions,
       [status |-> "active", ended |-> FALSE, total_trades |-> 0,
        winning_trades |-> 0, losing_trades |-> 0, total_profit_loss |-> 0])
  /\ strategy' = [strategy EXCEPT !.status = "active"]
  /\ ctl' = Append(ctl, [session_id |-> NewSessionId(sessions), pc |-> "scheduled",
                         is_running |-> FALSE, initial_trade_placed |-> FALSE,
                         started_with |-> strategy.conf, stop_requested |-> FALSE])
  /\ last' = NoStep
  /\ UNCHANGED <<trades, gw, holder, scope>>

\* strategies.py stop_strategy: the strategy stopped, and the active session
\* the query returns first (any of them) stopped with an end time.
stop_strategy ==
  /\ holder = 0
  /\ strategy.exists
  /\ strategy.status = "active"
  /\ strategy' = [strategy EXCEPT !.status = "stopped"]
  /\ LET active == {s \in SessionIds : sessions[s].status = "active"}
     IN IF active = {} THEN sessions' = sessions
        ELSE \E s \in active :
               sessions' = [sessions EXCEPT ![s].status = "stopped", ![s].ended = TRUE]
  /\ last' = NoStep
  /\ UNCHANGED <<trades, ctl, gw, holder, scope>>

\* strategies.py delete_strategy
delete_strategy ==
  /\ holder = 0
  /\ strategy.exists
  /\ strategy.status # "active"
  /\ strategy' = [strategy EXCEPT !.exists = FALSE]
  /\ last' = NoStep
  /\ UNCHANGED <<sessions, trades, ctl, gw, holder, scope>>

\* strategies.py update_strategy: refused for an active strategy; otherwise
\* the fields of the request overwrite those of the row.
update_strategy ==
  /\ holder = 0
  /\ strategy.exists
  /\ strategy.status # "active"
  /\ \E c \in {ConfNormal, ConfTightStop} \ {strategy.conf} :
       strategy' = [strategy EXCEPT !.conf = c]
  /\ last' = NoStep
  /\ UNCHANGED <<sessions, trades, ctl, gw, holder, scope>>

\* trading.py connect_mt5 -> mt5_interface.connect
connect_mt5 ==
  /\ holder = 0
  /\ \E live \in BOOLEAN :
       /\ gw' = connect(gw, live)
       /\ last' = [StepRec(0, "connect") EXCEPT
                     !.connected = {gw.is_mt5_available /\ live}]
  /\ UNCHANGED <<strategy, sessions, trades, ctl, holder, scope>>

\* trading.py disconnect_mt5 -> mt5_interface.disconnect
disconnect_mt5 ==
  /\ holder = 0
  /\ gw' = disconnect(gw)
  /\ last' = NoStep
  /\ UNCHANGED <<strategy, sessions, trades, ctl, holder, scope>>

\* MartingaleService.stop_strategy(): clears the service's is_running flag.
service_stop(s) ==
  /\ holder = 0
  /\ ctl' = [ctl EXCEPT ![s].is_running = FALSE,
                         ![s].stop_requested = @ \/ (scope.stops /\ ctl[s].pc # "done")]
  /\ last' = NoStep
  /\ UNCHANGED <<strategy, sessions, trades, gw, holder, scope>>

\* ------------------------------------------------------------ run_strategy
StrategyActive == strategy.exists /\ strategy.status = "active"

\* The controller of session s is at the top of the while loop and may run.
AtLoopTop(s) == ctl[s].pc = "loop" /\ holder \in {0, s}

\* run_strategy up to "Strategy not found": return through the finally block.
run_strategy_missing(s) ==
  /\ ctl[s].pc = "scheduled"
  /\ holder = 0
  /\ ~strategy.exists
  /\ Finally(s)
  /\ last' = StepRec(s, "missing")
  /\ UNCHANGED <<trades, gw, scope>>

\* run_strategy up to the first test of the while condition: is_running set,
\* the gateway connected if it was not, the start logged.  No suspension
\* follows, so the first iteration runs before anything else.
run_strategy_begin(s) ==
  /\ ctl[s].pc = "scheduled"
  /\ holder = 0
  /\ strategy.exists
  /\ \E live \in BOOLEAN :
       /\ gw' = IF gw.is_connected THEN gw ELSE connect(gw, live)
       /\ last' = [StepRec(s, "begin") EXCEPT
                     !.logs = <<SystemLog("INFO", "Martingale strategy started", s)>>,
                     !.connected = IF gw.is_connected THEN {}
                                   ELSE {gw.is_mt5_available /\ live}]
  /\ ctl' = [ctl EXCEPT ![s].pc = "loop", ![s].is_running = TRUE]
  /\ holder' = s
  /\ UNCHANGED <<strategy, sessions, trades, scope>>

\* The outcomes of the gateway that make a difference in the current state:
\* a live terminal may refuse any order or close; a mock or disconnected
\* gateway leaves nothing to choose.
Live == gw.is_connected /\ ~gw.mock_mode
QuoteChoices == IF Live THEN Quotes ELSE {{}}
OrderChoices == IF Live THEN BOOLEAN ELSE {TRUE}
CloseChoices(s) == IF Live THEN SUBSET (OpenTrades(trades, s) \cup {Len(trades) + 1}) ELSE {{}}
FirstChoices(s) == IF Live THEN {CHOOSE i \in OpenTrades(trades, s) : TRUE}
                   ELSE OpenTrades(trades, s) \cup {Len(trades) + 1}

\* "while self.is_running" is false: the loop ends, then the finally block.
loop_exit(s) ==
  /\ AtLoopTop(s)
  /\ ~ctl[s].is_running
  /\ Finally(s)
  /\ last' = StepRec(s, "flag")
  /\ UNCHANGED <<trades, gw, scope>>

\* Mutant: the test of the strategy row does not leave the loop.
iter_deactivated_continues(s) ==
  /\ AtLoopTop(s)
  /\ ctl[s].is_running
  /\ ~StrategyActive
  /\ holder' = 0
  /\ last' = StepRec(s, "inactive")
  /\ UNCHANGED <<strategy, sessions, trades, ctl, gw, scope>>

\* "Strategy stopped or deactivated": break, then the finally block.
iter_deactivated(s) ==
  /\ AtLoopTop(s)
  /\ ctl[s].is_running
  /\ ~StrategyActive
  /\ Finally(s)
  /\ last' = StepRec(s, "inactive")
  /\ UNCHANGED <<trades, gw, scope>>

\* Mutant: the iteration without a price counts the initial order as placed.
iter_no_price_skips_initial(s) ==
  /\ AtLoopTop(s)
  /\ ctl[s].is_running
  /\ StrategyActive
  /\ \E q \in QuoteChoices : get_price(q) = {}
  /\ holder' = 0
  /\ last' = StepRec(s, "noprice")
  /\ ctl' = [ctl EXCEPT ![s].initial_trade_placed = TRUE]
  /\ UNCHANGED <<strategy, sessions, trades, gw, scope>>

\* "Could not get price": sleep(5), continue.
iter_no_price(s) ==
  /\ AtLoopTop(s)
  /\ ctl[s].is_running
  /\ StrategyActive
  /\ \E q \in QuoteChoices : get_price(q) = {}
  /\ holder' = 0
  /\ last' = StepRec(s, "noprice")
  /\ UNCHANGED <<strategy, sessions, trades, ctl, gw, scope>>

\* _place_initial_trade, then continue without a sleep.
iter_place_initial(s) ==
  /\ AtLoopTop(s)
  /\ ctl[s].is_running
  /\ StrategyActive
  /\ ~ctl[s].initial_trade_placed
  /\ Len(trades) < scope.trades
  /\ \E q \in QuoteChoices, accepted \in OrderChoices :
       /\ get_price(q) # {}
       /\ LET vol == strategy.conf.initial_lot_size
              r == send_market_order("buy", accepted, q)
          IN /\ trades' = Append(trades, PlacedTrade(s, "buy", vol, 0, r))
             /\ last' = [StepRec(s, "initial") EXCEPT
                           !.order = {[dir |-> "buy", vol |-> vol, level |-> 0,
                                       ok |-> r.success]},
                           !.logs = IF r.success
                                    THEN <<SystemLog("INFO", "Initial trade", s)>>
                                    ELSE <<SystemLog("ERROR", "Initial trade failed", s)>>]
  /\ ctl' = [ctl EXCEPT ![s].initial_trade_placed = TRUE]
  /\ holder' = s
  /\ UNCHANGED <<strategy, sessions, gw, scope>>

\* "if not open_trades": sleep(10), continue.
iter_no_open_trades(s) ==
  /\ AtLoopTop(s)
  /\ ctl[s].is_running
  /\ StrategyActive
  /\ ctl[s].initial_trade_placed
  /\ \E q \in QuoteChoices : get_price(q) # {}
  /\ OpenTrades(trades, s) = {}
  /\ holder' = 0
  /\ last' = StepRec(s, "idle")
  /\ UNCHANGED <<strategy, sessions, trades, ctl, gw, scope>>

\* The rest of an iteration with open trades: _check_and_place_recovery_trades,
\* _check_exit_conditions (on the open trades read before the recovery order),
\* _update_session_stats, sleep(5); or, when a step raises, the except
\* handler: the error logged (which commits the pending row changes), sleep(10).
\* q: the live quote; ordOk: the terminal accepts the recovery order;
\* accepted: the trades whose close it accepts; first: the trade the close
\* pass meets first.
Evaluate(s, q, ordOk, accepted, first) ==
  LET p == CHOOSE x \in get_price(q) : TRUE
      conf == strategy.conf
      open == OpenTrades(trades, s)
      pnl == calculate_unrealized_pnl(trades, open, p)
      dec == RecoveryDecision(conf, trades, open, p)
      base == [StepRec(s, "eval") EXCEPT
                 !.price = {p}, !.nOpen = Cardinality(open), !.pnl = pnl]
  IN IF dec.err
     THEN /\ trades' = trades
          /\ sessions' = sessions
          /\ last' = [base EXCEPT !.kind = "error",
                                  !.logs = except_handler(s)]
     ELSE LET r == send_market_order(
                     IF dec.order = {} THEN "buy"
                     ELSE (CHOOSE o \in dec.order : TRUE).dir, ordOk, q)
              tr1 == IF dec.order = {} THEN trades
                     ELSE LET o == CHOOSE o \in dec.order : TRUE
                          IN Append(trades, PlacedTrade(s, o.dir, o.vol, o.level, r))
              reason == ExitReason(conf, pnl)
              cl == IF reason = "none"
                    THEN [trades |-> tr1, req |-> {}, ok |-> {}, err |-> FALSE]
                    ELSE close_all_session_trades(tr1, s, accepted, first, q)
          IN /\ dec.order # {} => Len(trades) < scope.trades
             /\ accepted \subseteq OpenTrades(tr1, s)
             /\ first \in OpenTrades(tr1, s)
             /\ trades' = cl.trades
             /\ sessions' = IF cl.err THEN sessions
                            ELSE update_session_stats(sessions, cl.trades, s)
             /\ last' = [base EXCEPT
                  !.kind = IF cl.err THEN "error" ELSE "eval",
                  !.order = {[dir |-> o.dir, vol |-> o.vol, level |-> o.level,
                              ok |-> r.success] : o \in dec.order},
                  !.exit = reason,
                  !.openAtExit = IF reason = "none" THEN {} ELSE OpenTrades(tr1, s),
                  !.closeReq = cl.req,
                  !.closeOk = cl.ok,
                  !.logs = (IF dec.order # {} /\ r.success
                            THEN <<SystemLog("INFO", "Recovery", s)>> ELSE <<>>)
                           \o (IF reason = "none" THEN <<>>
                               ELSE IF cl.err
                                 THEN except_handler(s)
                               ELSE <<SystemLog("INFO", "Closed all trades", s)>>)]

iter_evaluate(s) ==
  /\ AtLoopTop(s)
  /\ ctl[s].is_running
  /\ StrategyActive
  /\ ctl[s].initial_trade_placed
  /\ OpenTrades(trades, s) # {}
  /\ \E q \in QuoteChoices, ordOk \in OrderChoices :
       /\ get_price(q) # {}
       /\ \E accepted \in CloseChoices(s), first \in FirstChoices(s) :
            Evaluate(s, q, ordOk, accepted, first)
  /\ holder' = 0
  /\ UNCHANGED <<strategy, ctl, gw, scope>>

\* The task is cancelled while it sleeps (the server shuts down): the
\* CancelledError is no Exception, passes the loop's except clause and leaves
\* run_strategy through the finally block.
task_cancelled(s) ==
  /\ ctl[s].pc = "loop"
  /\ holder = 0
  /\ Finally(s)
  /\ last' = StepRec(s, "cancelled")
  /\ UNCHANGED <<trades, gw, scope>>

\* --------------------------------------------------------- trading endpoints
\* routers/trading.py

\* place_order: a Trade row for the session id of the request (0: an id that
\* is no session of this strategy), created pending and updated from the
\* gateway's result.
place_order ==
  /\ holder = 0
  /\ Len(trades) < scope.trades
  /\ \E sid \in SessionIds \cup {0}, type \in {"buy", "sell"},
        q \in QuoteChoices, accepted \in OrderChoices :
       trades' = Append(trades,
                   PlacedTrade(sid, type, 1, 0, send_market_order(type, accepted, q)))
  /\ last' = NoStep
  /\ UNCHANGED <<strategy, sessions, ctl, gw, holder, scope>>

\* The row update of the close_position endpoint for exit price x: the P&L is
\* the price difference times the volume, without the point value.
ClosedByEndpoint(t, x) ==
  [t EXCEPT !.status = "closed", !.close_price = {x}, !.held = FALSE,
            !.profit_loss = IF t.trade_type = "buy"
                            THEN (x - t.open_price) * t.volume
                            ELSE (t.open_price - x) * t.volume]

\* close_position endpoint: the row with the ticket, whatever its status; on
\* the gateway's success the row is updated and committed.  A failed close
\* answers 400; a mock close succeeds without a price, the subtraction raises
\* before the commit and the request's session is dropped: no change then.
api_close_position ==
  /\ holder = 0
  /\ \E i \in DOMAIN trades, q \in QuoteChoices :
       LET r == close_position(trades[i], TRUE, q)
       IN /\ trades[i].ticket # "none"
          /\ r.success
          /\ r.price # {}
          /\ trades' = [trades EXCEPT
                          ![i] = ClosedByEndpoint(trades[i], CHOOSE x \in r.price : TRUE)]
  /\ last' = NoStep
  /\ UNCHANGED <<strategy, sessions, ctl, gw, holder, scope>>

\* close_all_positions endpoint: the gateway closes the positions the terminal
\* reports (none when disconnected or in mock mode), each close succeeding or
\* not; then every OPEN row is set CLOSED, whatever the gateway achieved.
api_close_all_positions ==
  /\ holder = 0
  /\ \E q \in QuoteChoices,
        accepted \in (IF Live THEN SUBSET {i \in DOMAIN trades : trades[i].held} ELSE {{}}) :
       trades' = [i \in DOMAIN trades |->
                   LET t == trades[i]
                       gone == Live /\ close_position(t, i \in accepted, q).success
                   IN [t EXCEPT !.status = IF t.status = "open" THEN "closed" ELSE t.status,
                                !.held = t.held /\ ~gone]]
  /\ last' = NoStep
  /\ UNCHANGED <<strategy, sessions, ctl, gw, holder, scope>>

Next ==
  \/ start_strategy
  \/ stop_strategy
  \/ delete_strategy
  \/ connect_mt5
  \/ disconnect_mt5
  \/ \E s \in DOMAIN ctl : service_stop(s)
  \/ \E s \in DOMAIN ctl : run_strategy_missing(s)
  \/ \E s \in DOMAIN ctl : run_strategy_begin(s)
  \/ \E s \in DOMAIN ctl : loop_exit(s)
  \/ \E s \in DOMAIN ctl : iter_deactivated(s)
  \/ \E s \in DOMAIN ctl : iter_no_price(s)
  \/ \E s \in DOMAIN ctl : iter_place_initial(s)
  \/ \E s \in DOMAIN ctl : iter_no_open_trades(s)
  \/ \E s \in DOMAIN ctl : iter_evaluate(s)
  \/ \E s \in DOMAIN ctl : task_cancelled(s)

Spec == Init /\ [][Next]_vars

Lifecycle == InitLifecycle /\ [][Next]_vars

Restarts == InitRestarts /\ [][Next]_vars

EndToEnd == InitEndToEnd /\ [][Next]_vars

Faults == InitFaults /\ [][Next]_vars

Unvalidated == InitUnvalidated /\ [][Next]_vars

StopRequests == InitStopRequests /\ [][Next]_vars

\* What the event loop does for the task of session s: it starts a scheduled
\* task and resumes a sleeping one when its sleep is over.
ControllerStep(s) ==
  /\ s \in DOMAIN ctl
  /\ \/ run_strategy_missing(s)
     \/ run_strategy_begin(s)
     \/ loop_exit(s)
     \/ iter_deactivated(s)
     \/ iter_no_price(s)
     \/ iter_place_initial(s)
     \/ iter_no_open_trades(s)
     \/ iter_evaluate(s)

\* Lifecycle under the scheduling of the asyncio event loop: every sleep of
\* run_strategy is finite and a task that is ready to run is run.  Requests
\* and the cancellation of a task come from outside and need not happen.
FairLifecycle ==
  InitLifecycle /\ [][Next]_vars /\ \A s \in 1..MaxSessions : WF_vars(ControllerStep(s))

\* Restarts with updates of the strategy between them.
NextReconfig ==
  \/ Next
  \/ update_strategy

Reconfig == InitLifecycle /\ [][NextReconfig]_vars

\* The strategy engine together with the manual trading endpoints.
NextTrading ==
  \/ Next
  \/ place_order
  \/ api_close_position
  \/ api_close_all_positions

Trading == InitTrading /\ [][NextTrading]_vars


\* ================================================================ properties
\* Definitions used to state the properties, written from the properties'
\* wording and not from the code.

Min(a, b) == IF a < b THEN a ELSE b

RECURSIVE ClaimPnlUpTo(_, _, _, _)
\* The aggregate unrealized P&L of the trades T at reference price p: the sum
\* of the signed price delta times volume times 10 (rows 1..n).
ClaimPnlUpTo(tr, T, p, n) ==
  IF n = 0 THEN 0
  ELSE ClaimPnlUpTo(tr, T, p, n - 1)
       + (IF n \in T
          THEN (IF tr[n].trade_type = "buy" THEN p - tr[n].open_price
                ELSE tr[n].open_price - p) * tr[n].volume * 10
          ELSE 0)

\* The step just taken is an evaluation (lines 84-109 of run_strategy) of
\* session last'.sid; the following read the state before it.
EvalStep == last'.kind \in {"eval", "error"}
StepOpen == OpenTrades(trades, last'.sid)
StepPnl == ClaimPnlUpTo(trades, StepOpen, CHOOSE x \in last'.price : TRUE, Len(trades))
StepPlaced == Len(trades') = Len(trades) + 1
StepBuys == Cardinality({i \in StepOpen : trades[i].trade_type = "buy"})
StepSells == Cardinality({i \in StepOpen : trades[i].trade_type = "sell"})

\* C1: when an exit condition fires in an iteration, a close is requested for
\* every open trade of the session and the controller terminates by itself:
\* the session is completed with an end time and the run loop has ended.
C1_ExitTerminatesRun ==
  last.exit # "none" =>
    /\ last.closeReq = last.openAtExit
    /\ ctl[last.sid].pc = "done"
    /\ sessions[last.sid].status = "completed"
    /\ sessions[last.sid].ended

\* C2: a controller that ends because the strategy is no longer active, or
\* because a stop was requested, has requested a close for every trade of its
\* session that is open when it ends.
C2_DeactivationClosesOpenTrades ==
  last.kind \in {"inactive", "flag"} =>
    OpenTrades(trades, last.sid) \subseteq last.closeReq

C4_PartialCloseThenTerminated ==
  (last.exit # "none" /\ last.closeOk # {} /\ last.closeReq \ last.closeOk # {}) =>
    /\ last.closeReq = last.openAtExit
    /\ \A i \in last.closeOk :
         /\ trades[i].status = "closed"
         /\ \E x \in trades[i].close_price :
              trades[i].profit_loss =
                (IF trades[i].trade_type = "buy" THEN x - trades[i].open_price
                 ELSE trades[i].open_price - x) * trades[i].volume * 10
    /\ \A i \in last.closeReq \ last.closeOk : trades[i].status = "open"
    /\ ctl[last.sid].pc = "done"
    /\ sessions[last.sid].status \in {"stopped", "completed"}

\* C5: an iteration that begins with at least max_trades open trades sends no
\* order and creates no trade row.
C5_NoEscalationAtMaxTrades ==
  [][(EvalStep /\ Cardinality(StepOpen) >= strategy.conf.max_trades)
       => (Len(trades') = Len(trades) /\ last'.order = {})]_vars

\* An evaluation at the limit whose loss had reached the recovery step.
C5_Witness ==
  /\ last.kind = "eval"
  /\ last.nOpen >= strategy.conf.max_trades
  /\ last.pnl < 0
  /\ -last.pnl >= strategy.conf.recovery_step * strategy.conf.initial_lot_size
  /\ last.order = {}

\* C6: the volume of an escalation order is min(initial_lot_size * 2^level,
\* max_lot_size) with level the number of open trades, and lies between
\* initial_lot_size and max_lot_size.
C6_EscalationVolumeInRange ==
  [][(EvalStep /\ StepPlaced) =>
       LET t == trades'[Len(trades')]
           c == strategy.conf
           n == Cardinality(StepOpen)
       IN /\ t.recovery_level = n
          /\ t.volume = Min(c.initial_lot_size * Pow2(n), c.max_lot_size)
          /\ t.volume <= c.max_lot_size
          /\ t.volume >= c.initial_lot_size]_vars

\* C7: below max_trades open trades, an iteration sends an escalation order
\* exactly if the unrealized P&L is negative and its magnitude divided by
\* initial_lot_size reaches recovery_step (initial_lot_size > 0); the new
\* trade's recovery level is the number of open trades.
C7_EscalationExactlyOnLoss ==
  [][(EvalStep /\ Cardinality(StepOpen) < strategy.conf.max_trades) =>
       /\ StepPlaced <=>
            (StepPnl < 0 /\
             -StepPnl >= strategy.conf.recovery_step * strategy.conf.initial_lot_size)
       /\ StepPlaced =>
            /\ trades'[Len(trades')].sid = last'.sid
            /\ trades'[Len(trades')].recovery_level = Cardinality(StepOpen)]_vars

\* An escalation sent with the loss exactly at the recovery step.
C7_Witness ==
  /\ last.kind = "eval"
  /\ last.order # {}
  /\ -last.pnl = strategy.conf.recovery_step * strategy.conf.initial_lot_size
  /\ trades[Len(trades)].recovery_level = last.nOpen

\* C8: an escalation order goes to the side with fewer open trades, and is a
\* buy when both sides have the same number.
C8_EscalationDirection ==
  [][(EvalStep /\ StepPlaced) =>
       LET d == trades'[Len(trades')].trade_type
       IN /\ StepBuys < StepSells => d = "buy"
          /\ StepSells < StepBuys => d = "sell"
          /\ StepBuys = StepSells => d = "buy"]_vars

\* An escalation to buy with one buy and one sell open.
C8_Witness ==
  /\ last.kind = "eval"
  /\ last.nOpen = 2
  /\ \E o \in last.order : o.dir = "buy" /\ o.level = 2

\* C9: the exit tests are take-profit, stop-loss, max-drawdown in this order
\* and the first that is met gives the reason; with the take-profit and the
\* stop-loss test both met the positions are closed for "Take Profit Hit".
C9_ExitPriority ==
  [][(last'.kind = "eval" \/ (last'.kind = "error" /\ last'.exit # "none")) =>
       LET c == strategy.conf
           tp == StepPnl >= c.take_profit
           sl == Abs(StepPnl) >= c.stop_loss
           md == Abs(StepPnl) >= c.max_drawdown
       IN /\ tp => last'.exit = "Take Profit Hit"
          /\ (~tp /\ sl) => last'.exit = "Stop Loss Hit"
          /\ (~tp /\ ~sl /\ md) => last'.exit = "Max Drawdown Reached"
          /\ (~tp /\ ~sl /\ ~md) => last'.exit = "none"
          /\ last'.exit # "none" => last'.closeReq # {}]_vars

\* Positions closed for take profit when the stop-loss test was met as well.
C9_Witness ==
  /\ last.kind = "eval"
  /\ last.exit = "Take Profit Hit"
  /\ last.pnl >= strategy.conf.take_profit
  /\ Abs(last.pnl) >= strategy.conf.stop_loss
  /\ last.closeOk # {}

\* C10: the positions are never closed for "Stop Loss Hit" in an iteration
\* whose unrealized P&L is zero or positive.
C10_StopLossOnlyWhenNegative ==
  [][last'.exit = "Stop Loss Hit" => StepPnl < 0]_vars

\* C11: in the end-to-end scenario (initial buy filled at 13, unrealized P&L
\* -120 at ask 1, then -1040 at ask 91, a gateway that accepts every order and
\* every close), exactly one escalation happens (level 1, volume 2), exactly
\* two trades are open when closing starts, both are closed afterwards, and
\* the session ends completed for the reason "Stop Loss Hit".
C11_EndToEndScenario ==
  LET s == last.sid
      mine == {i \in DOMAIN trades : trades[i].sid = s}
      esc == {i \in mine : trades[i].recovery_level >= 1}
  IN (/\ last.kind \in {"eval", "error"}
      /\ last.nOpen = 2
      /\ last.pnl = -1040
      /\ trades[1].trade_type = "buy" /\ trades[1].open_price = 13
      /\ trades[2].trade_type = "sell" /\ trades[2].open_price = 0
      /\ \A i \in mine : trades[i].status # "cancelled"
      /\ last.closeOk = last.closeReq)
     =>
     (/\ last.exit = "Stop Loss Hit"
      /\ Cardinality(esc) = 1
      /\ \A i \in esc : trades[i].recovery_level = 1 /\ trades[i].volume = 2
      /\ Cardinality(last.openAtExit) = 2
      /\ \A i \in mine : trades[i].status = "closed"
      /\ sessions[s].status = "completed")

C13_OneControllerPerSession ==
  [][/\ Len(ctl') = Len(sessions')
     /\ \A c \in DOMAIN ctl' : ctl'[c].session_id = c
     /\ \A a, b \in DOMAIN ctl' : a # b => ctl'[a].session_id # ctl'[b].session_id
     /\ \A c \in DOMAIN ctl : /\ ctl'[c].session_id = ctl[c].session_id
                              /\ ctl[c].pc # "scheduled" => ctl'[c].pc # "scheduled"]_vars

\* Two controllers are in their loops at the same time, on different sessions.
C13_Witness ==
  \E a, b \in DOMAIN ctl :
    /\ a # b
    /\ ctl[a].pc = "loop" /\ ctl[b].pc = "loop"
    /\ ctl[a].session_id # ctl[b].session_id

RECURSIVE ClaimRealizedUpTo(_, _, _)
\* The sum of the realized P&L of the closed trades of session s among rows 1..n.
ClaimRealizedUpTo(tr, s, n) ==
  IF n = 0 THEN 0
  ELSE ClaimRealizedUpTo(tr, s, n - 1)
       + (IF tr[n].sid = s /\ tr[n].status = "closed" THEN tr[n].profit_loss ELSE 0)

\* C14: right after a statistics refresh (the end of an evaluation that did
\* not raise), the session's total_profit_loss is the sum of the realized P&L
\* of its closed trades, total_trades their number, winning_trades and
\* losing_trades the numbers of those with P&L above and below zero.
C14_StatsMatchClosedTrades ==
  [][last'.kind = "eval" =>
       LET s == last'.sid
           closed == {i \in DOMAIN trades' : trades'[i].sid = s /\ trades'[i].status = "closed"}
       IN /\ sessions'[s].total_profit_loss = ClaimRealizedUpTo(trades', s, Len(trades'))
          /\ sessions'[s].total_trades = Cardinality(closed)
          /\ sessions'[s].winning_trades =
               Cardinality({i \in closed : trades'[i].profit_loss > 0})
          /\ sessions'[s].losing_trades =
               Cardinality({i \in closed : trades'[i].profit_loss < 0})]_vars

\* A refresh with a winning and a losing closed trade and one that is open.
C14_Witness ==
  /\ last.kind = "eval"
  /\ sessions[last.sid].winning_trades >= 1
  /\ sessions[last.sid].losing_trades >= 1
  /\ OpenTrades(trades, last.sid) # {}

\* C15: a trade that is closed or cancelled is not modified by any later
\* operation: its status, exit price and realized P&L stay as they are.
C15_ClosedTradesImmutable ==
  [][\A i \in DOMAIN trades :
       trades[i].status \in {"closed", "cancelled"} =>
         /\ trades'[i].status = trades[i].status
         /\ trades'[i].close_price = trades[i].close_price
         /\ trades'[i].profit_loss = trades[i].profit_loss]_vars

\* C16: every trade of a session that is recorded as closed has an exit price
\* and a realized P&L of (exit - entry) * volume * 10 for a buy and
\* (entry - exit) * volume * 10 for a sell.
C16_ClosedTradesHaveRealizedPnl ==
  \A i \in DOMAIN trades :
    (trades[i].sid \in SessionIds /\ trades[i].status = "closed") =>
      /\ trades[i].close_price # {}
      /\ \A x \in trades[i].close_price :
           trades[i].profit_loss =
             (IF trades[i].trade_type = "buy" THEN x - trades[i].open_price
              ELSE trades[i].open_price - x) * trades[i].volume * 10

\* C17: a controller whose strategy is found and active issues exactly one
\* initial order (buy, volume initial_lot_size, recovery level 0), and issues
\* it before its first Monitoring pass: a pass that fetched the price (with
\* or without success), or went on to the open trades, finds the initial
\* order already issued.
C17_InitialOrderFirst ==
  \A s \in DOMAIN ctl :
    LET initial == {i \in DOMAIN trades :
                      trades[i].sid = s /\ trades[i].recovery_level = 0}
    IN /\ Cardinality(initial) <= 1
       /\ \A i \in initial : /\ trades[i].trade_type = "buy"
                             /\ trades[i].volume = strategy.conf.initial_lot_size
       /\ ctl[s].initial_trade_placed <=> Cardinality(initial) = 1
       /\ (last.sid = s /\ last.kind \in {"noprice", "idle", "eval", "error"})
            => Cardinality(initial) = 1

\* The initial order of session s was rejected: its trade is cancelled.
RejectedInitial(tr, s) ==
  \E i \in DOMAIN tr :
    tr[i].sid = s /\ tr[i].recovery_level = 0 /\ tr[i].status = "cancelled"

\* C18: once the gateway has rejected the initial order of a session, the
\* session has no open trade and no other trade than the cancelled one, and
\* every later step of its controller is a poll that changes nothing (no
\* price, or no open trades) unless the strategy was stopped, a stop was
\* requested or the task was cancelled.
C18_RejectedInitialOrder ==
  [][\A s \in DOMAIN ctl :
       /\ RejectedInitial(trades', s) =>
            /\ \A i \in DOMAIN trades' :
                 trades'[i].sid = s =>
                   (trades'[i].status = "cancelled" /\ trades'[i].recovery_level = 0)
            /\ Cardinality({i \in DOMAIN trades' : trades'[i].sid = s}) = 1
       /\ (RejectedInitial(trades, s) /\ last'.sid = s) =>
            \/ /\ last'.kind \in {"noprice", "idle"}
               /\ UNCHANGED <<strategy, sessions, trades, ctl>>
            \/ last'.kind = "inactive" /\ ~StrategyActive
            \/ last'.kind = "flag" /\ ~ctl[s].is_running
            \/ last'.kind = "cancelled"]_vars

\* The controller polls on after a rejected initial order, the session active.
C18_Witness ==
  /\ last.kind = "idle"
  /\ RejectedInitial(trades, last.sid)
  /\ sessions[last.sid].status = "active"
  /\ ctl[last.sid].pc = "loop"

C20_NoPriceNoChange ==
  [][last'.kind = "noprice" =>
       /\ UNCHANGED <<strategy, sessions, trades, gw, ctl>>
       /\ last'.order = {} /\ last'.closeReq = {}
       /\ ctl'[last'.sid].pc = "loop"
       /\ ctl'[last'.sid].is_running]_vars

\* An iteration without a price in a session that has an open trade.
C20_Witness ==
  /\ last.kind = "noprice"
  /\ ctl[last.sid].initial_trade_placed
  /\ OpenTrades(trades, last.sid) # {}

\* C21: an iteration in which a step raises ends in the loop's except clause:
\* the controller is still in its loop with is_running set, the session and
\* the strategy keep their status (active), and an ERROR record with the
\* session id is appended to the log.
C21_ExceptionCaughtAtIterationBoundary ==
  [][last'.kind = "error" =>
       LET s == last'.sid
       IN /\ ctl'[s].pc = "loop"
          /\ ctl'[s].is_running
          /\ sessions'[s].status = "active"
          /\ sessions'[s].status = sessions[s].status
          /\ ~sessions'[s].ended
          /\ strategy' = strategy
          /\ \E k \in DOMAIN last'.logs :
               last'.logs[k].level = "ERROR" /\ last'.logs[k].sid = s]_vars

\* An iteration raised ZeroDivisionError in the recovery check, with the
\* controller still in its loop.
C21_Witness ==
  /\ last.kind = "error"
  /\ strategy.conf.initial_lot_size = 0
  /\ last.exit = "none"
  /\ ctl[last.sid].pc = "loop"

\* C22: a controller that finds no strategy row, at the start of the run or
\* at the top of an iteration, sends no order and no close request in that
\* step and has terminated after it; a terminated controller takes no further
\* step, so no row is added to its session and none of its rows changes.
C22_MissingStrategyTerminates ==
  [][/\ (\/ last'.kind = "missing"
         \/ last'.kind = "inactive" /\ ~strategy.exists) =>
          /\ ctl'[last'.sid].pc = "done"
          /\ ~ctl'[last'.sid].is_running
          /\ last'.order = {} /\ last'.closeReq = {}
          /\ trades' = trades
     /\ \A s \in DOMAIN ctl :
          ctl[s].pc = "done" =>
            /\ ctl'[s] = ctl[s]
            /\ last'.sid = s => last' = last
            /\ \A i \in DOMAIN trades' :
                 trades'[i].sid = s => (i \in DOMAIN trades /\ trades'[i] = trades[i])]_vars

\* The strategy row disappeared in mid-run: the controller found it missing
\* at the top of an iteration while its session had an open trade.
C22_Witness ==
  /\ last.kind = "inactive"
  /\ ~strategy.exists
  /\ ctl[last.sid].pc = "done"
  /\ ctl[last.sid].initial_trade_placed
  /\ OpenTrades(trades, last.sid) # {}

\* C23: once a stop is set on a running controller (the strategy row is no
\* longer active, or the service's is_running flag is cleared, while the
\* controller is in its loop), the controller eventually terminates, whatever
\* requests follow.  (Behaviours are followed up to scope.trades trade rows;
\* one that reaches that number counts as satisfying the property.)
C23_StopLeadsToTerminated ==
  \A s \in 1..MaxSessions :
    (s \in DOMAIN ctl /\ ctl[s].pc = "loop" /\ (~StrategyActive \/ ~ctl[s].is_running))
      ~> (\/ s \in DOMAIN ctl /\ ctl[s].pc = "done"
          \/ Len(trades) >= scope.trades)

\* C24: a session whose controller ended on a stop request made through
\* MartingaleService.stop_strategy (the cleared is_running flag) or through
\* the stop endpoint (the strategy row found stopped) has status stopped, and
\* a session in which an exit condition fired is not recorded as stopped.
C24_TerminalStatusTellsWhy ==
  /\ last.kind = "flag" => sessions[last.sid].status = "stopped"
  /\ (last.kind = "inactive" /\ strategy.exists /\ Len(sessions) = 1) =>
       sessions[last.sid].status = "stopped"
  /\ last.exit # "none" => sessions[last.sid].status # "stopped"

\* C25: a connect on a gateway that is already connected leaves is_connected
\* and mock_mode as they were.  (Only connect and disconnect write the
\* gateway's fields, and disconnect clears is_connected: a step from a
\* connected gateway to a connected gateway that changes a field is a connect.)
C25_ConnectIdempotent ==
  [][(gw.is_connected /\ gw'.is_connected) =>
       /\ gw'.mock_mode = gw.mock_mode
       /\ gw' = gw]_vars

\* C26: right after a connect that reached the live terminal the gateway is
\* not in mock mode: the orders and prices that follow are the terminal's.
C26_LiveConnectionNotMock ==
  last.connected = {TRUE} => (gw.is_connected /\ ~gw.mock_mode)

\* C27: every order outcome of a controller step has its record in the log,
\* with the session id: the initial order and the escalation order, accepted
\* or rejected, and the close of each trade, done or failed.
C27_OrderOutcomesLogged ==
  LET mine == {k \in DOMAIN last.logs : last.logs[k].sid = last.sid}
      about(events) == {k \in mine : last.logs[k].event \in events}
  IN /\ \A o \in last.order :
          IF o.level = 0 /\ last.kind = "initial"
          THEN about(IF o.ok THEN {"Initial trade"} ELSE {"Initial trade failed"}) # {}
          ELSE about({"Recovery", "Recovery failed"}) # {}
     /\ Cardinality(about({"Closed all trades", "Closed trade", "Close failed"}))
          >= Cardinality(last.closeReq)

\* C28: in every step in which a controller uses the strategy's parameters
\* (the initial order, the recovery and exit evaluation), the parameters are
\* those the strategy had when the controller's session was started.
C28_ConfigurationFixedPerSession ==
  last.kind \in {"initial", "eval", "error"} =>
    strategy.conf = ctl[last.sid].started_with

\* C29: while the controller of a session is in its run, a step that is not a
\* step of that controller neither adds a trade to the session nor changes
\* one of its trades.
C29_TradesOwnedByController ==
  [][\A s \in DOMAIN ctl :
       (ctl[s].pc = "loop" /\ last'.sid # s) =>
         /\ \A i \in DOMAIN trades : trades[i].sid = s => trades'[i] = trades[i]
         /\ \A i \in DOMAIN trades' \ DOMAIN trades : trades'[i].sid # s]_vars

\* The statistics of a session row.
ClaimStats(r) ==
  <<r.total_trades, r.winning_trades, r.losing_trades, r.total_profit_loss>>

\* C30: a controller that ends while its session has no open trade requests
\* no close, changes no trade and leaves the session's statistics as they
\* were, and the session is terminal with an end time once the step is over;
\* and the close pass itself, applied to a session without open trades, asks
\* for no close and returns the trades unchanged.
C30_ClosingWithoutOpenTrades ==
  [][/\ (/\ last'.kind \in {"missing", "flag", "inactive", "cancelled"}
         /\ OpenTrades(trades, last'.sid) = {}) =>
          LET s == last'.sid
          IN /\ last'.closeReq = {} /\ last'.order = {}
             /\ trades' = trades
             /\ ClaimStats(sessions'[s]) = ClaimStats(sessions[s])
             /\ ctl'[s].pc = "done"
             /\ sessions'[s].status \in {"stopped", "completed"}
             /\ sessions'[s].ended
     /\ \A s \in SessionIds :
          OpenTrades(trades, s) = {} =>
            LET cl == close_all_session_trades(trades, s, {}, 1, {})
            IN cl.trades = trades /\ cl.req = {} /\ cl.ok = {} /\ ~cl.err]_vars

\* A controller ended on a stop while its session had closed trades in its
\* statistics and no open trade.
C30_Witness ==
  /\ last.kind \in {"flag", "inactive"}
  /\ ctl[last.sid].pc = "done"
  /\ OpenTrades(trades, last.sid) = {}
  /\ sessions[last.sid].total_trades >= 1
  /\ sessions[last.sid].total_profit_loss # 0

\* The orderings of the finite set T.
Orderings(T) ==
  {f \in [1..Cardinality(T) -> T] : \A a, b \in 1..Cardinality(T) : a # b => f[a] # f[b]}

C32_EscalationReturnsToMonitoring ==
  ~(/\ last.kind \in {"eval", "error"}
    /\ last.order # {}
    /\ (last.exit # "none" \/ last.closeReq # {}))

\* C33: no trade is pending in any state between two steps; a trade the
\* controller has placed is open with a ticket and its entry price, or
\* cancelled without a ticket; and every order of a step has its row.
C33_NoTradeStaysPending ==
  /\ \A i \in DOMAIN trades :
       /\ trades[i].status # "pending"
       /\ trades[i].status \in {"open", "closed", "cancelled"}
       /\ trades[i].status = "cancelled" => trades[i].ticket = "none"
       /\ trades[i].status \in {"open", "closed"} =>
            /\ trades[i].ticket \in {"live", "mock"}
            /\ trades[i].open_price >= 0
  /\ \A o \in last.order :
       LET t == trades[Len(trades)]
       IN /\ t.sid = last.sid
          /\ t.recovery_level = o.level
          /\ (o.ok /\ Len(trades) \notin last.closeOk) => t.status = "open"
          /\ ~o.ok => t.status = "cancelled"

\* An iteration whose order the gateway rejected and one whose order it filled.
C33_Witness ==
  /\ last.order # {}
  /\ \E i, j \in DOMAIN trades :
       /\ trades[i].status = "cancelled"
       /\ trades[j].status = "open" /\ trades[j].ticket = "live" /\ trades[j].open_price > 0

\* C34: after every iteration of a controller, whatever way it ended, and in
\* every state in which a session is stopped or completed, the session's
\* total_trades is the number of its closed trades and total_profit_loss the
\* sum of their realized P&L.
C34_StatsAfterEveryIteration ==
  \A s \in SessionIds :
    (\/ last.sid = s /\ last.kind \in {"noprice", "initial", "idle", "eval", "error"}
     \/ sessions[s].status \in {"stopped", "completed"}) =>
      /\ sessions[s].total_trades =
           Cardinality({i \in DOMAIN trades : trades[i].sid = s /\ trades[i].status = "closed"})
      /\ sessions[s].total_profit_loss = ClaimRealizedUpTo(trades, s, Len(trades))

\* C35: no step adds a trade to a session whose status is stopped or
\* completed, and no controller step sends an order for such a session.
C35_NoOrderAfterTerminalStatus ==
  [][\A s \in SessionIds :
       sessions[s].status \in {"stopped", "completed"} =>
         /\ \A i \in DOMAIN trades' \ DOMAIN trades : trades'[i].sid # s
         /\ last'.sid = s => last'.order = {}]_vars

\* C36: in every state the number of open trades of a session is at most the
\* strategy's max_trades.
C36_OpenTradesWithinMaxTrades ==
  \A s \in SessionIds :
    Cardinality({i \in DOMAIN trades : trades[i].sid = s /\ trades[i].status = "open"})
      <= strategy.conf.max_trades

\* C37: a trade becomes closed only in a step in which the gateway reported
\* the close of that trade as done: a close of the controller's close pass
\* that succeeded, or a close through an endpoint after which the terminal
\* no longer holds the trade's position.
C37_ClosedOnlyAfterGatewaySuccess ==
  [][\A i \in DOMAIN trades :
       (trades[i].status # "closed" /\ trades'[i].status = "closed") =>
         \/ i \in last'.closeOk
         \/ trades[i].held /\ ~trades'[i].held]_vars

\* C38: in every state between two steps, the strategy is active exactly when
\* one of its sessions is active.
C38_StrategyActiveIffSessionActive ==
  strategy.exists =>
    ((strategy.status = "active") <=> (\E s \in SessionIds : sessions[s].status = "active"))

\* C39: a stop requested through MartingaleService.stop_strategy() is never
\* lost: once it was requested, before the task has started or during the
\* run, the controller of that service runs no further iteration (none that
\* gets past the status check at the top of the loop).
C39_ServiceStopNeverLost ==
  [][\A s \in DOMAIN ctl :
       ctl[s].stop_requested =>
         ~(last'.sid = s /\
           last'.kind \in {"noprice", "initial", "idle", "eval", "error"})]_vars

====
